---------------------------- MODULE Spec2Model ----------------------------
(***************************************************************************)
(* Model of the Pi Pico noise generator: the double-buffered DMA streaming *)
(* loop of main (src/src/main.rs), the brown/white noise generation        *)
(* (generate_brown_noise, gen_white_noise) and the Butterworth filter      *)
(* (src/src/lib.rs).                                                       *)
(*                                                                         *)
(* Three specifications share the variables:                               *)
(*   Spec        the scheduler: main from line 264 on, with the DMA        *)
(*               channels as a concurrent party;                           *)
(*   SpecFilter  Butterworth::new followed by compute calls;               *)
(*   SpecNoise   generate_brown_noise called on successive slices.         *)
(* I16F16 values are modelled by their bit pattern (value * 2^16).         *)
(***************************************************************************)
EXTENDS Integers, Sequences, FiniteSets, TLC

VARIABLES
    \* ---- scheduler (main) ----
    pc,          \* position of main
    fillIdx,     \* position of samples.iter_mut() inside generate_brown_noise
    gen_num,     \* main's gen_num
    tx_buf1,     \* main's tx_buf1 (buffer id, 0 once moved away)
    tx_buf2,     \* main's tx_buf2
    next_buf,    \* main's next_buf
    tx_buf,      \* the loop's tx_buf (returned by wait)
    chBuf,       \* buffer bound to each DMA channel (0: none)
    chState,     \* each DMA channel: idle, armed (chained, not started), busy, done
    first,       \* the channel the current double-buffer handle treats as active
    filled,      \* per buffer: words written by the latest generate call on it
    returned,    \* per buffer: the latest generate call on it has returned
    doneSeen,    \* number of is_done() polls of the loop that returned true
    gap,         \* a transfer completed in the loop with no queued buffer
    lateFill,    \* the running transfer completed before the pending fill did
    lateHandOff, \* the running transfer completed between fill and read_next
    bufGen,      \* per buffer: gen_num of the call that produced its content
    sent,        \* gen_num of the content of each completed transfer, in order
    \* ---- Butterworth ----
    inputs, outputs, input_index, output_index,
    xHist,       \* inputs of the calls so far, newest first
    yHist,       \* outputs of the calls so far, newest first
    \* ---- noise ----
    prior_sample, \* the NoiseState carried by main
    rv,           \* last random word drawn
    white,        \* last white sample
    walk,         \* last random-walk value selected before volume scaling
    sampleWord,   \* last word packed into the slice
    nSamples,     \* samples generated in the current call
    nFills,       \* completed generate_brown_noise calls
    draws,        \* number of rng.gen::<u32>() calls so far
    firstPrior,   \* prior_sample used by the first sample of the current call
    fillEndState, \* value returned by the last completed call
    overflowed,   \* an I16F16 operation of generate_brown_noise has overflowed
    scaledInt,    \* integral part of the last scaled_sample
    \* ---- PIO state machine running the I2S program ----
    pioPc,        \* address of the next instruction (0..7)
    pioX,         \* scratch register X, <<high half, low half>>
    xDefined,     \* X has been read or written since reset
    ws,           \* LRCLK pin (side-set bit 1)
    bck,          \* BCLK pin (side-set bit 0)
    shifted,      \* bits shifted out of the current FIFO word (0: OSR empty)
    lastOp,       \* kind of the last instruction cycle
    bitsSinceWs,  \* bits shifted since the last LRCLK change (its bit included)
    lastHalfBits, \* bits shifted between the last two LRCLK changes
    wsChanges,    \* LRCLK changes so far, counted up to 3
    bckInPeriod,  \* BCLK falling edges since the last LRCLK rise
    lastPeriodBck, \* BCLK periods in the last completed LRCLK period
    wsRises,      \* LRCLK rises so far, counted up to 3
    frameBits,    \* bits shifted since control last left entry_point
    frameWs,      \* LRCLK changes since control last left entry_point
    lastFrameBits, \* bits shifted in the last completed pass of the program
    lastFrameWs,  \* LRCLK changes in the last completed pass
    framesDone    \* completed passes, counted up to 2

schedVars == <<pc, fillIdx, gen_num, tx_buf1, tx_buf2, next_buf, tx_buf, chBuf,
               chState, first, filled, returned, doneSeen, gap, lateFill,
               lateHandOff, bufGen, sent>>
filterVars == <<inputs, outputs, input_index, output_index, xHist, yHist>>
noiseVars == <<prior_sample, rv, white, walk, sampleWord, nSamples, nFills,
               draws, firstPrior, fillEndState, overflowed, scaledInt>>
pioVars == <<pioPc, pioX, xDefined, ws, bck, shifted, lastOp, bitsSinceWs,
             lastHalfBits, wsChanges, bckInPeriod, lastPeriodBck, wsRises,
             frameBits, frameWs, lastFrameBits, lastFrameWs, framesDone>>
vars == <<schedVars, filterVars, noiseVars, pioVars>>

-----------------------------------------------------------------------------
(* Constants of the program and bounds of the model *)

TABLE_SIZE == 220

\* Bound on the number of generate_brown_noise calls main makes.
MaxGen == 6

Buffers == {1, 2, 3}   \* tx_buf1, tx_buf2 and the third singleton
Channels == {0, 1}     \* dma.ch0, dma.ch1

Other(c) == 1 - c

-----------------------------------------------------------------------------
(* Initial states of the three parts *)

SchedInit ==
    /\ pc = "gen1"
    /\ fillIdx = 0
    /\ gen_num = 0
    /\ tx_buf1 = 1
    /\ tx_buf2 = 2
    /\ next_buf = 0
    /\ tx_buf = 0
    /\ chBuf = [c \in Channels |-> 0]
    /\ chState = [c \in Channels |-> "idle"]
    /\ first = 0
    /\ filled = [b \in Buffers |-> 0]
    /\ returned = [b \in Buffers |-> FALSE]
    /\ doneSeen = 0
    /\ gap = FALSE
    /\ lateFill = FALSE
    /\ lateHandOff = FALSE
    /\ bufGen = [b \in Buffers |-> -1]
    /\ sent = <<>>

FilterNew ==
    /\ inputs = [i \in 0..2 |-> 0]
    /\ outputs = [i \in 0..1 |-> 0]
    /\ input_index = 0
    /\ output_index = 0
    /\ xHist = <<>>
    /\ yHist = <<>>

NoiseInit ==
    /\ prior_sample = 0
    /\ rv = <<0, 0>>
    /\ white = 0
    /\ walk = 0
    /\ sampleWord = 0
    /\ nSamples = 0
    /\ nFills = 0
    /\ draws = 0
    /\ firstPrior = 0
    /\ fillEndState = 0
    /\ overflowed = FALSE
    /\ scaledInt = 0

\* The state machine after PIOBuilder::build: stopped at the first
\* instruction of the installed program, OSR empty, pins low, X not written.
PioInit ==
    /\ pioPc = 0
    /\ pioX = <<0, 0>>
    /\ xDefined = FALSE
    /\ ws = 0
    /\ bck = 0
    /\ shifted = 0
    /\ lastOp = "none"
    /\ bitsSinceWs = 0
    /\ lastHalfBits = 0
    /\ wsChanges = 0
    /\ bckInPeriod = 0
    /\ lastPeriodBck = 0
    /\ wsRises = 0
    /\ frameBits = 0
    /\ frameWs = 0
    /\ lastFrameBits = 0
    /\ lastFrameWs = 0
    /\ framesDone = 0

Init == SchedInit /\ FilterNew /\ NoiseInit /\ PioInit

-----------------------------------------------------------------------------
(* The scheduler: main, lines 264-294 *)

GenPcs == {"gen1", "gen2", "gen"}
LoopPcs == {"poll", "gen", "wait", "read_next"}

\* The slice passed to the generate_brown_noise call in progress.
FillTarget ==
    CASE pc = "gen1" -> tx_buf1
      [] pc = "gen2" -> tx_buf2
      [] pc = "gen" -> next_buf
      [] OTHER -> 0

AfterGen ==
    CASE pc = "gen1" -> "gen2"
      [] pc = "gen2" -> "start1"
      [] OTHER -> "wait"

\* One iteration of `for sample in samples.iter_mut()`: one word is written.
GenStep ==
    /\ pc \in GenPcs
    /\ fillIdx < TABLE_SIZE
    /\ filled' = [filled EXCEPT ![FillTarget] = fillIdx + 1]
    /\ returned' = [returned EXCEPT ![FillTarget] = FALSE]
    /\ fillIdx' = fillIdx + 1
    /\ UNCHANGED <<pc, gen_num, tx_buf1, tx_buf2, next_buf, tx_buf, chBuf,
                   chState, first, doneSeen, gap, lateFill, lateHandOff>>
    /\ UNCHANGED <<bufGen, sent>>
    /\ UNCHANGED <<filterVars, noiseVars, pioVars>>

\* Mutant: the fill loop stops one word short.
GenReturnEarly ==
    /\ pc \in GenPcs
    /\ fillIdx = TABLE_SIZE - 1
    /\ returned' = [returned EXCEPT ![FillTarget] = TRUE]
    /\ gen_num' = gen_num + 1
    /\ fillIdx' = 0
    /\ pc' = AfterGen
    /\ UNCHANGED <<tx_buf1, tx_buf2, next_buf, tx_buf, chBuf, chState, first,
                   filled, doneSeen, gap, lateFill, lateHandOff>>
    /\ bufGen' = [bufGen EXCEPT ![FillTarget] = gen_num]
    /\ UNCHANGED sent
    /\ UNCHANGED <<filterVars, noiseVars, pioVars>>

\* generate_brown_noise returns; main stores prior_sample and bumps gen_num.
GenReturn ==
    /\ pc \in GenPcs
    /\ fillIdx = TABLE_SIZE
    /\ returned' = [returned EXCEPT ![FillTarget] = TRUE]
    /\ gen_num' = gen_num + 1
    /\ fillIdx' = 0
    /\ pc' = AfterGen
    /\ UNCHANGED <<tx_buf1, tx_buf2, next_buf, tx_buf, chBuf, chState, first,
                   filled, doneSeen, gap, lateFill, lateHandOff>>
    /\ bufGen' = [bufGen EXCEPT ![FillTarget] = gen_num]
    /\ UNCHANGED sent
    /\ UNCHANGED <<filterVars, noiseVars, pioVars>>

\* single_buffer::Config::new(dma.ch0, tx_buf1, tx).start()
Start1 ==
    /\ pc = "start1"
    /\ chBuf' = [chBuf EXCEPT ![0] = tx_buf1]
    /\ chState' = [chState EXCEPT ![0] = "busy"]
    /\ tx_buf1' = 0
    /\ pc' = "wait1"
    /\ UNCHANGED <<fillIdx, gen_num, tx_buf2, next_buf, tx_buf, first, filled,
                   returned, doneSeen, gap, lateFill, lateHandOff>>
    /\ UNCHANGED <<bufGen, sent>>
    /\ UNCHANGED <<filterVars, noiseVars, pioVars>>

\* tx_transfer1.wait(): blocks until channel 0 is done, gives the buffer back.
Wait1 ==
    /\ pc = "wait1"
    /\ chState[0] = "done"
    /\ tx_buf1' = chBuf[0]
    /\ chBuf' = [chBuf EXCEPT ![0] = 0]
    /\ chState' = [chState EXCEPT ![0] = "idle"]
    /\ pc' = "start2"
    /\ UNCHANGED <<fillIdx, gen_num, tx_buf2, next_buf, tx_buf, first, filled,
                   returned, doneSeen, gap, lateFill, lateHandOff>>
    /\ UNCHANGED <<bufGen, sent>>
    /\ UNCHANGED <<filterVars, noiseVars, pioVars>>

\* single_buffer::Config::new(dma.ch1, tx_buf2, tx).start()
Start2 ==
    /\ pc = "start2"
    /\ chBuf' = [chBuf EXCEPT ![1] = tx_buf2]
    /\ chState' = [chState EXCEPT ![1] = "busy"]
    /\ tx_buf2' = 0
    /\ pc' = "wait2"
    /\ UNCHANGED <<fillIdx, gen_num, tx_buf1, next_buf, tx_buf, first, filled,
                   returned, doneSeen, gap, lateFill, lateHandOff>>
    /\ UNCHANGED <<bufGen, sent>>
    /\ UNCHANGED <<filterVars, noiseVars, pioVars>>

\* tx_transfer2.wait()
Wait2 ==
    /\ pc = "wait2"
    /\ chState[1] = "done"
    /\ tx_buf2' = chBuf[1]
    /\ chBuf' = [chBuf EXCEPT ![1] = 0]
    /\ chState' = [chState EXCEPT ![1] = "idle"]
    /\ pc' = "dbl_start"
    /\ UNCHANGED <<fillIdx, gen_num, tx_buf1, next_buf, tx_buf, first, filled,
                   returned, doneSeen, gap, lateFill, lateHandOff>>
    /\ UNCHANGED <<bufGen, sent>>
    /\ UNCHANGED <<filterVars, noiseVars, pioVars>>

\* double_buffer::Config::new((ch0, ch1), tx_buf1, tx).start()
DblStart ==
    /\ pc = "dbl_start"
    /\ chBuf' = [chBuf EXCEPT ![0] = tx_buf1]
    /\ chState' = [chState EXCEPT ![0] = "busy"]
    /\ first' = 0
    /\ tx_buf1' = 0
    /\ pc' = "dbl_read_next"
    /\ UNCHANGED <<fillIdx, gen_num, tx_buf2, next_buf, tx_buf, filled,
                   returned, doneSeen, gap, lateFill, lateHandOff>>
    /\ UNCHANGED <<bufGen, sent>>
    /\ UNCHANGED <<filterVars, noiseVars, pioVars>>

\* The engine's read_next(buf): bind buf to the other channel as the queued
\* transfer, chained to start when the active channel finishes; when the
\* active channel has already finished the queued one is started at once.
EngineReadNext(buf) ==
    /\ chBuf' = [chBuf EXCEPT ![Other(first)] = buf]
    /\ chState' = [chState EXCEPT ![Other(first)] =
                      IF chState[first] = "busy" THEN "armed" ELSE "busy"]

\* Mutant: the first double-buffer transfer is started with nothing queued.
DblNoReadNext ==
    /\ pc = "dbl_read_next"
    /\ pc' = "mk_next"
    /\ UNCHANGED <<fillIdx, gen_num, tx_buf1, tx_buf2, next_buf, tx_buf, chBuf,
                   chState, first, filled, returned, doneSeen, gap, lateFill,
                   lateHandOff>>
    /\ UNCHANGED <<bufGen, sent>>
    /\ UNCHANGED <<filterVars, noiseVars, pioVars>>

\* .read_next(tx_buf2)
DblReadNext ==
    /\ pc = "dbl_read_next"
    /\ EngineReadNext(tx_buf2)
    /\ tx_buf2' = 0
    /\ pc' = "mk_next"
    /\ UNCHANGED <<fillIdx, gen_num, tx_buf1, next_buf, tx_buf, first, filled,
                   returned, doneSeen, gap, lateFill, lateHandOff>>
    /\ UNCHANGED <<bufGen, sent>>
    /\ UNCHANGED <<filterVars, noiseVars, pioVars>>

\* Mutant: two-slot ping-pong, next_buf is the first buffer again.
MkNextAlias ==
    /\ pc = "mk_next"
    /\ next_buf' = 1
    /\ pc' = "poll"
    /\ UNCHANGED <<fillIdx, gen_num, tx_buf1, tx_buf2, tx_buf, chBuf, chState,
                   first, filled, returned, doneSeen, gap, lateFill,
                   lateHandOff>>
    /\ UNCHANGED <<bufGen, sent>>
    /\ UNCHANGED <<filterVars, noiseVars, pioVars>>

\* let mut next_buf = singleton!(...): the third buffer
MkNext ==
    /\ pc = "mk_next"
    /\ next_buf' = 3
    /\ pc' = "poll"
    /\ UNCHANGED <<fillIdx, gen_num, tx_buf1, tx_buf2, tx_buf, chBuf, chState,
                   first, filled, returned, doneSeen, gap, lateFill,
                   lateHandOff>>
    /\ UNCHANGED <<bufGen, sent>>
    /\ UNCHANGED <<filterVars, noiseVars, pioVars>>

\* The engine's is_done(): the active channel of the handle has finished.
IsDone == chState[first] = "done"

\* Mutant: the loop fills the next buffer without polling is_done.
PollNoCheck ==
    /\ pc = "poll"
    /\ gen_num < MaxGen
    /\ fillIdx' = 0
    /\ pc' = "gen"
    /\ UNCHANGED <<gen_num, tx_buf1, tx_buf2, next_buf, tx_buf, chBuf, chState,
                   first, filled, returned, doneSeen, gap, lateFill,
                   lateHandOff>>
    /\ UNCHANGED <<bufGen, sent>>
    /\ UNCHANGED <<filterVars, noiseVars, pioVars>>

\* if tx_transfer.is_done() { ... : the poll returns true, the fill begins.
PollDone ==
    /\ pc = "poll"
    /\ IsDone
    /\ gen_num < MaxGen
    /\ doneSeen' = doneSeen + 1
    /\ fillIdx' = 0
    /\ pc' = "gen"
    /\ UNCHANGED <<gen_num, tx_buf1, tx_buf2, next_buf, tx_buf, chBuf, chState,
                   first, filled, returned, gap, lateFill, lateHandOff>>
    /\ UNCHANGED <<bufGen, sent>>
    /\ UNCHANGED <<filterVars, noiseVars, pioVars>>

\* The poll returns false: the loop spins.
PollBusy ==
    /\ pc = "poll"
    /\ ~IsDone
    /\ UNCHANGED vars

\* let (tx_buf, next_tx_transfer) = tx_transfer.wait(): blocks until the
\* active channel is done, returns its buffer; the queued transfer becomes
\* the active one of the new handle.
Wait ==
    /\ pc = "wait"
    /\ IsDone
    /\ tx_buf' = chBuf[first]
    /\ chBuf' = [chBuf EXCEPT ![first] = 0]
    /\ chState' = [chState EXCEPT ![first] = "idle"]
    /\ first' = Other(first)
    /\ pc' = "read_next"
    /\ UNCHANGED <<fillIdx, gen_num, tx_buf1, tx_buf2, next_buf, filled,
                   returned, doneSeen, gap, lateFill, lateHandOff>>
    /\ UNCHANGED <<bufGen, sent>>
    /\ UNCHANGED <<filterVars, noiseVars, pioVars>>

\* Mutant: next_buf is not replaced by the reclaimed buffer.
ReadNextKeepsBuf ==
    /\ pc = "read_next"
    /\ EngineReadNext(next_buf)
    /\ pc' = "poll"
    /\ UNCHANGED <<fillIdx, gen_num, tx_buf1, tx_buf2, next_buf, tx_buf, first,
                   filled, returned, doneSeen, gap, lateFill, lateHandOff>>
    /\ UNCHANGED <<bufGen, sent>>
    /\ UNCHANGED <<filterVars, noiseVars, pioVars>>

\* Mutant: the filled buffer is dropped instead of being handed to read_next.
ReadNextNotCalled ==
    /\ pc = "read_next"
    /\ next_buf' = tx_buf
    /\ tx_buf' = 0
    /\ pc' = "poll"
    /\ UNCHANGED <<fillIdx, gen_num, tx_buf1, tx_buf2, chBuf, chState, first,
                   filled, returned, doneSeen, gap, lateFill, lateHandOff>>
    /\ UNCHANGED <<bufGen, sent>>
    /\ UNCHANGED <<filterVars, noiseVars, pioVars>>

\* Mutant: the startup pattern (start, then wait) repeated in the loop.
ReadNextThenWait ==
    /\ pc = "read_next"
    /\ EngineReadNext(next_buf)
    /\ next_buf' = tx_buf
    /\ tx_buf' = 0
    /\ pc' = "wait"
    /\ UNCHANGED <<fillIdx, gen_num, tx_buf1, tx_buf2, first, filled, returned,
                   doneSeen, gap, lateFill, lateHandOff>>
    /\ UNCHANGED <<bufGen, sent>>
    /\ UNCHANGED <<filterVars, noiseVars, pioVars>>

\* tx_transfer = next_tx_transfer.read_next(next_buf); next_buf = tx_buf;
ReadNext ==
    /\ pc = "read_next"
    /\ EngineReadNext(next_buf)
    /\ next_buf' = tx_buf
    /\ tx_buf' = 0
    /\ pc' = "poll"
    /\ UNCHANGED <<fillIdx, gen_num, tx_buf1, tx_buf2, first, filled, returned,
                   doneSeen, gap, lateFill, lateHandOff>>
    /\ UNCHANGED <<bufGen, sent>>
    /\ UNCHANGED <<filterVars, noiseVars, pioVars>>

\* The transfer engine finishes the running transfer of channel c; a queued
\* (armed) transfer on the other channel starts at that moment.
DmaComplete(c) ==
    /\ chState[c] = "busy"
    /\ chState' = [d \in Channels |->
                     IF d = c THEN "done"
                     ELSE IF chState[d] = "armed" THEN "busy" ELSE chState[d]]
    /\ gap' = (gap \/ (pc \in LoopPcs /\ chState[Other(c)] # "armed"))
    /\ lateFill' = (lateFill \/ pc = "gen" \/ (pc = "poll" /\ IsDone))
    /\ lateHandOff' = (lateHandOff \/ pc \in {"wait", "read_next"})
    /\ UNCHANGED <<pc, fillIdx, gen_num, tx_buf1, tx_buf2, next_buf, tx_buf,
                   chBuf, first, filled, returned, doneSeen>>
    /\ sent' = Append(sent, bufGen[chBuf[c]])
    /\ UNCHANGED bufGen
    /\ UNCHANGED <<filterVars, noiseVars, pioVars>>

Next ==
    \/ GenStep
    \/ GenReturn
    \/ Start1
    \/ Wait1
    \/ Start2
    \/ Wait2
    \/ DblStart
    \/ DblReadNext
    \/ MkNext
    \/ PollDone
    \/ PollBusy
    \/ Wait
    \/ ReadNext
    \/ \E c \in Channels : DmaComplete(c)

Spec == Init /\ [][Next]_vars

\* The steps of main: a sequential program that keeps running.
MainStep ==
    \/ GenStep
    \/ GenReturn
    \/ Start1
    \/ Wait1
    \/ Start2
    \/ Wait2
    \/ DblStart
    \/ DblReadNext
    \/ MkNext
    \/ PollDone
    \/ Wait
    \/ ReadNext

\* main keeps executing and every started transfer eventually completes.
SpecLive ==
    /\ Init
    /\ [][Next]_vars
    /\ WF_vars(MainStep)
    /\ \A c \in Channels : WF_vars(DmaComplete(c))

-----------------------------------------------------------------------------
(* I16F16 arithmetic on bit patterns *)

\* The model checker's integers are 32 bits wide, so 32-bit values are
\* handled as a signed high half and an unsigned low half of 16 bits, and a
\* product is assembled from partial products that fit.
Hi16(x) == x \div 65536          \* floor: -32768..32767 for an i32
Lo16(x) == x % 65536             \* 0..65535

\* Two's complement wrap of the high half to 16 bits: the i32 of bit
\* pattern h * 2^16 + l, for any integer h and l in 0..65535.
FromHalves(h, l) == (((h + 32768) % 65536) - 32768) * 65536 + l

\* floor(p * q / 2^16) for p, q in 0..65535.
MulLoLo(p, q) == ((p \div 256) * q + (((p % 256) * q) \div 256)) \div 256

\* I16F16 * I16F16: the 64-bit product shifted right by the 16 fraction
\* bits (rounding towards minus infinity), wrapped to 32 bits.
FMul(a, b) ==
    LET m1 == Hi16(a) * Lo16(b)
        m2 == Lo16(a) * Hi16(b)
        low == Lo16(m1) + Lo16(m2) + MulLoLo(Lo16(a), Lo16(b))
    IN FromHalves(Hi16(a) * Hi16(b) + Hi16(m1) + Hi16(m2) + Hi16(low),
                  Lo16(low))

\* I16F16 + I16F16 and I16F16 - I16F16, wrapped to 32 bits.
FAdd(a, b) ==
    FromHalves(Hi16(a) + Hi16(b) + Hi16(Lo16(a) + Lo16(b)),
               Lo16(Lo16(a) + Lo16(b)))
FNeg(a) ==
    FromHalves((0 - Hi16(a)) - (IF Lo16(a) = 0 THEN 0 ELSE 1),
               Lo16(65536 - Lo16(a)))
FSub(a, b) == FAdd(a, FNeg(b))

\* The same operations overflow when the exact result is no i32.
InI16(h) == h >= -32768 /\ h <= 32767
MulOverflows(a, b) ==
    LET m1 == Hi16(a) * Lo16(b)
        m2 == Lo16(a) * Hi16(b)
        low == Lo16(m1) + Lo16(m2) + MulLoLo(Lo16(a), Lo16(b))
    IN ~InI16(Hi16(a) * Hi16(b) + Hi16(m1) + Hi16(m2) + Hi16(low))
AddOverflows(a, b) == ~InI16(Hi16(a) + Hi16(b) + Hi16(Lo16(a) + Lo16(b)))
SubOverflows(a, b) == ~InI16((Hi16(a) - Hi16(b)) + Hi16(Lo16(a) - Lo16(b)))

-----------------------------------------------------------------------------
(* Butterworth (src/src/lib.rs) *)

\* Bound on the number of compute calls.
MaxCalls == 5

\* Inputs tried: 0, +-0.5, +-1.0 (1.0 is the unit impulse).
FilterInputs == {-65536, -32768, 0, 32768, 65536}

\* b = [0.00414308, 0, -0.00414308], a = [1, -1.99130017, 0.99171384]
B0 == 272
B1 == 0
B2 == -272
A1 == -130502
A2 == 64993

\* The difference equation evaluated on the ring buffers as compute indexes
\* them: ins/ii are the input ring and cursor after push_input, outs/oi the
\* output ring and cursor before push_output.
ComputeY(ins, ii, outs, oi) ==
    FSub(FSub(FAdd(FAdd(FMul(B0, ins[ii]),
                        FMul(B1, ins[(ii + 2) % 3])),
                   FMul(B2, ins[(ii + 1) % 3])),
              FMul(A1, outs[(oi + 1) % 2])),
         FMul(A2, outs[oi]))

\* Mutant: push_output advances its cursor modulo the input capacity.
ComputeOutputModuloThree(input) ==
    /\ Len(yHist) < MaxCalls
    /\ LET ins == [inputs EXCEPT ![input_index] = input]
           ii == (input_index + 1) % 3
           y == ComputeY(ins, ii, outputs, output_index % 2)
       IN /\ inputs' = ins
          /\ input_index' = ii
          /\ outputs' = [outputs EXCEPT ![output_index % 2] = y]
          /\ output_index' = (output_index + 1) % 3
          /\ xHist' = <<input>> \o xHist
          /\ yHist' = <<y>> \o yHist
    /\ UNCHANGED <<schedVars, noiseVars, pioVars>>

\* Butterworth::compute(input): push_input, the difference equation,
\* push_output; the value returned is the head of yHist.
Compute(input) ==
    /\ Len(yHist) < MaxCalls
    /\ LET ins == [inputs EXCEPT ![input_index] = input]
           ii == (input_index + 1) % 3
           y == ComputeY(ins, ii, outputs, output_index)
       IN /\ inputs' = ins
          /\ input_index' = ii
          /\ outputs' = [outputs EXCEPT ![output_index] = y]
          /\ output_index' = (output_index + 1) % 2
          /\ xHist' = <<input>> \o xHist
          /\ yHist' = <<y>> \o yHist
    /\ UNCHANGED <<schedVars, noiseVars, pioVars>>

NextFilter == \E input \in FilterInputs : Compute(input)

SpecFilter == Init /\ [][NextFilter]_vars

-----------------------------------------------------------------------------
(* Noise generation (gen_white_noise, generate_brown_noise) *)

\* Length of the slice handed to generate_brown_noise.
NoiseLen == 2
\* Bound on the number of samples generated over all calls.
MaxSamples == 4
\* The low 16 bits of the random words tried are k * 65535 / LoSteps.
LoSteps == 4

LEAKAGE == 65339            \* I16F16::lit("0.997")
\* Mutant: the step scale written as 1.0.
SCALING_Unit == FromHalves(1, 0)
SCALING == 655              \* I16F16::lit("0.01")
VOLUME == 16384             \* I16F16::lit("0.25")
I16F16_MAX == 2147483647    \* I16F16::MAX

\* A 32-bit random word is the pair <<high half, low half>>. The words tried:
\* both values of bit 31, the chosen low halves, and bits 16..30 varying
\* with the low half.
RandomWord(b31, lo) == <<b31 * 32768 + ((lo * 7) % 32768), lo>>
RandomWords ==
    {RandomWord(b31, (k * 65535) \div LoSteps) : b31 \in 0..1, k \in 0..LoSteps}

\* Mutant: the mask keeps bits 16..30 as well (0x7FFF_FFFF).
GenWhiteNoiseWideMask(r) ==
    IF r[1] \div 32768 = 0
    THEN (r[1] % 32768) * 65536 + r[2]
    ELSE FNeg((r[1] % 32768) * 65536 + r[2])

\* gen_white_noise on the random word r (the same code is inlined in
\* generate_brown_noise): I16F16::from_bits((rv & 0xFFFF) as i32), times -1
\* when rv & 0x8000_0000 is not 0.
GenWhiteNoise(r) ==
    IF r[1] \div 32768 = 0
    THEN r[2]
    ELSE FNeg(r[2])

\* let maybe_new_sample = LEAKAGE * prior_sample + white * SCALING;
MaybeNewSample(prior, w) == FAdd(FMul(LEAKAGE, prior), FMul(w, SCALING))

\* Mutant: the value is clamped to the boundary it crossed.
ReflectedClamped(prior, w) ==
    IF MaybeNewSample(prior, w) >= 16384
    THEN 16384
    ELSE IF MaybeNewSample(prior, w) <= -16384
         THEN -16384
         ELSE MaybeNewSample(prior, w)

\* The value selected by the reflection step (before `* VOLUME`).
Reflected(prior, w) ==
    IF MaybeNewSample(prior, w) >= 16384 \/ MaybeNewSample(prior, w) <= -16384
    THEN FSub(FMul(LEAKAGE, prior), FMul(w, SCALING))
    ELSE MaybeNewSample(prior, w)

\* (scaled_sample.to_num::<i16>()) as u32 & 0xFFFF
PackWord(scaled) == (scaled \div 65536) % 65536

\* Some multiplication, addition or subtraction of one loop iteration on
\* prior and white sample w overflows I16F16.
StepOverflows(prior, w) ==
    \/ MulOverflows(LEAKAGE, prior)
    \/ MulOverflows(w, SCALING)
    \/ AddOverflows(FMul(LEAKAGE, prior), FMul(w, SCALING))
    \/ /\ Reflected(prior, w) # MaybeNewSample(prior, w)
       /\ SubOverflows(FMul(LEAKAGE, prior), FMul(w, SCALING))
    \/ MulOverflows(Reflected(prior, w), VOLUME)
    \/ MulOverflows(FMul(Reflected(prior, w), VOLUME), I16F16_MAX)

\* One iteration of the loop of generate_brown_noise on random word r.
NoiseSample(r) ==
    /\ nSamples < NoiseLen
    /\ nFills * NoiseLen + nSamples < MaxSamples
    /\ LET w == GenWhiteNoise(r)
           sel == Reflected(prior_sample, w)
           new_sample == FMul(sel, VOLUME)
       IN /\ rv' = r
          /\ white' = w
          /\ walk' = sel
          /\ sampleWord' = PackWord(FMul(new_sample, I16F16_MAX))
          /\ prior_sample' = new_sample
          /\ scaledInt' = Hi16(FMul(new_sample, I16F16_MAX))
          /\ overflowed' = (overflowed \/ StepOverflows(prior_sample, w))
    /\ nSamples' = nSamples + 1
    /\ draws' = draws + 1
    /\ firstPrior' = IF nSamples = 0 THEN prior_sample ELSE firstPrior
    /\ UNCHANGED <<nFills, fillEndState>>
    /\ UNCHANGED <<schedVars, filterVars, pioVars>>

\* Mutant: the caller drops the returned state and restarts from zero.
NoiseReturnRestarts ==
    /\ nSamples = NoiseLen
    /\ nSamples' = 0
    /\ nFills' = nFills + 1
    /\ fillEndState' = prior_sample
    /\ prior_sample' = 0
    /\ UNCHANGED <<rv, white, walk, sampleWord, draws, firstPrior, overflowed,
                   scaledInt>>
    /\ UNCHANGED <<schedVars, filterVars, pioVars>>

\* return prior_sample; the caller stores it and calls again on the next slice.
NoiseReturn ==
    /\ nSamples = NoiseLen
    /\ nSamples' = 0
    /\ nFills' = nFills + 1
    /\ fillEndState' = prior_sample
    /\ UNCHANGED <<prior_sample, rv, white, walk, sampleWord, draws,
                   firstPrior, overflowed, scaledInt>>
    /\ UNCHANGED <<schedVars, filterVars, pioVars>>

NextNoise ==
    \/ \E r \in RandomWords : NoiseSample(r)
    \/ NoiseReturn

SpecNoise == Init /\ [][NextNoise]_vars

\* generate_brown_noise as a function of its prior_sample argument: one
\* iteration from each prior value tried, k * 16383 / PriorSteps bits for
\* k in -PriorSteps..PriorSteps (inside (-0.25, 0.25), both ends near the
\* boundary).
PriorSteps == 8
PriorInputs == {(k * 16383) \div PriorSteps : k \in -PriorSteps..PriorSteps}

StepInit ==
    /\ SchedInit
    /\ FilterNew
    /\ PioInit
    /\ prior_sample \in PriorInputs
    /\ rv = <<0, 0>>
    /\ white = 0
    /\ walk = 0
    /\ sampleWord = 0
    /\ nSamples = 0
    /\ nFills = 0
    /\ draws = 0
    /\ firstPrior = 0
    /\ fillEndState = 0
    /\ overflowed = FALSE
    /\ scaledInt = 0

StepSample(r) == draws = 0 /\ NoiseSample(r)

NextStep == \E r \in RandomWords : StepSample(r)

SpecStep == StepInit /\ [][NextStep]_vars

-----------------------------------------------------------------------------
(* The I2S program of the PIO state machine (pio_asm, main.rs lines 167-186) *)

\* Largest value tried for the scratch register X, which nothing writes
\* before the program's first `jmp x--`.
X0Max == 15

\* The assembled program: address -> instruction. side is <<LRCLK, BCLK>>.
\*   0 bitloop1:    out pins, 1       side 0b10
\*   1              jmp x-- bitloop1  side 0b11
\*   2              out pins, 1       side 0b00
\*   3              set x, 14         side 0b01
\*   4 bitloop0:    out pins, 1       side 0b00
\*   5              jmp x-- bitloop0  side 0b01
\*   6              out pins, 1       side 0b10
\*   7 entry_point: set x, 14         side 0b11
Program ==
    [a \in 0..7 |->
        CASE a = 0 -> [op |-> "out", side |-> <<1, 0>>, arg |-> 1]
          [] a = 1 -> [op |-> "jmp", side |-> <<1, 1>>, arg |-> 0]
          [] a = 2 -> [op |-> "out", side |-> <<0, 0>>, arg |-> 1]
          [] a = 3 -> [op |-> "set", side |-> <<0, 1>>, arg |-> 14]
          [] a = 4 -> [op |-> "out", side |-> <<0, 0>>, arg |-> 1]
          [] a = 5 -> [op |-> "jmp", side |-> <<0, 1>>, arg |-> 4]
          [] a = 6 -> [op |-> "out", side |-> <<1, 0>>, arg |-> 1]
          [] a = 7 -> [op |-> "set", side |-> <<1, 1>>, arg |-> 14]]

\* public entry_point
entry_point == 7

\* .pull_threshold(32)
PullThreshold == 32

\* The address after a: the program wraps from its last instruction to its
\* first.
NextPc(a) == (a + 1) % 8

\* X - 1 on 32 bits.
DecX(x) == IF x[2] > 0 THEN <<x[1], x[2] - 1>>
           ELSE <<(x[1] + 65535) % 65536, 65535>>

\* The values X can hold when an instruction reads it.
XValues == IF xDefined THEN {pioX} ELSE {<<0, v>> : v \in 0..X0Max}

UpTo(n, cap) == IF n < cap THEN n + 1 ELSE cap

\* One instruction cycle at address a that shifts `bits` bits (0 or 1):
\* the side-set pins take the instruction's values, and the counters of
\* bits, LRCLK changes and BCLK periods are brought up to date.
Pins(a, bits) ==
    LET newWs == Program[a].side[1]
        newBck == Program[a].side[2]
        wsChanged == newWs # ws
        wsRose == ws = 0 /\ newWs = 1
        fell == IF bck = 1 /\ newBck = 0 THEN 1 ELSE 0
        leaving == Program[a].op = "set" /\ a = entry_point
    IN /\ ws' = newWs
       /\ bck' = newBck
       /\ bitsSinceWs' = IF wsChanged THEN bits ELSE bitsSinceWs + bits
       /\ lastHalfBits' = IF wsChanged THEN bitsSinceWs ELSE lastHalfBits
       /\ wsChanges' = IF wsChanged THEN UpTo(wsChanges, 3) ELSE wsChanges
       /\ bckInPeriod' = IF wsRose THEN fell ELSE bckInPeriod + fell
       /\ lastPeriodBck' = IF wsRose THEN bckInPeriod ELSE lastPeriodBck
       /\ wsRises' = IF wsRose THEN UpTo(wsRises, 3) ELSE wsRises
       /\ frameBits' = IF leaving THEN 0 ELSE frameBits + bits
       /\ frameWs' = IF leaving THEN 0
                     ELSE frameWs + (IF wsChanged THEN 1 ELSE 0)
       /\ lastFrameBits' = IF leaving THEN frameBits ELSE lastFrameBits
       /\ lastFrameWs' = IF leaving THEN frameWs ELSE lastFrameWs
       /\ framesDone' = IF leaving THEN UpTo(framesDone, 2) ELSE framesDone

\* out pins, 1: one bit leaves the OSR; with autopull the OSR is refilled
\* from the TX FIFO when PullThreshold bits have been shifted.
PioOut ==
    /\ Program[pioPc].op = "out"
    /\ shifted' = (shifted + Program[pioPc].arg) % PullThreshold
    /\ pioPc' = NextPc(pioPc)
    /\ lastOp' = "out"
    /\ Pins(pioPc, Program[pioPc].arg)
    /\ UNCHANGED <<pioX, xDefined>>
    /\ UNCHANGED <<schedVars, filterVars, noiseVars>>

\* out with the OSR exhausted and the TX FIFO empty: the instruction stalls
\* (its side-set values are driven) until the transfer engine delivers a word.
PioStall ==
    /\ Program[pioPc].op = "out"
    /\ shifted = 0
    /\ lastOp' = "stall"
    /\ Pins(pioPc, 0)
    /\ UNCHANGED <<pioPc, pioX, xDefined, shifted>>
    /\ UNCHANGED <<schedVars, filterVars, noiseVars>>

\* jmp x-- target: the branch is taken when X is not 0; X is decremented
\* either way.
PioJmp ==
    /\ Program[pioPc].op = "jmp"
    /\ \E x \in XValues :
          /\ pioPc' = IF x # <<0, 0>> THEN Program[pioPc].arg
                      ELSE NextPc(pioPc)
          /\ pioX' = DecX(x)
    /\ xDefined' = TRUE
    /\ lastOp' = "jmp"
    /\ Pins(pioPc, 0)
    /\ UNCHANGED shifted
    /\ UNCHANGED <<schedVars, filterVars, noiseVars>>

\* set x, 14
PioSet ==
    /\ Program[pioPc].op = "set"
    /\ pioX' = <<0, Program[pioPc].arg>>
    /\ xDefined' = TRUE
    /\ pioPc' = NextPc(pioPc)
    /\ lastOp' = "set"
    /\ Pins(pioPc, 0)
    /\ UNCHANGED shifted
    /\ UNCHANGED <<schedVars, filterVars, noiseVars>>

NextPio ==
    \/ PioOut
    \/ PioStall
    \/ PioJmp
    \/ PioSet

SpecPio == Init /\ [][NextPio]_vars

-----------------------------------------------------------------------------
(* Properties of the scheduler *)

\* The buffers bound to the transfer engine, and those main holds.
Bound == {chBuf[c] : c \in Channels} \ {0}
Held == {tx_buf1, tx_buf2, next_buf, tx_buf} \ {0}
FullyWritten(b) == filled[b] = TABLE_SIZE /\ returned[b]

\* C1: every buffer bound to a DMA channel (by start or read_next) holds
\* TABLE_SIZE words written by a generate_brown_noise call that has returned;
\* no channel is bound to a buffer whose fill is in progress or never happened.
C1_BoundBuffersFullyWritten ==
    \A c \in Channels : chBuf[c] # 0 => FullyWritten(chBuf[c])

\* The third buffer, filled inside the loop, is queued behind a running transfer.
C1_Witness ==
    \E c \in Channels :
        /\ chBuf[c] = 3
        /\ chState[c] = "armed"
        /\ chState[Other(c)] = "busy"

\* C2: whenever a generate_brown_noise call is in progress, the slice it
\* writes is bound to no DMA channel (neither running, queued, nor finished
\* and not yet given back), whatever the engine has done meanwhile.
C2_NoWriteToBoundBuffer ==
    pc \in GenPcs => (FillTarget # 0 /\ FillTarget \notin Bound)

\* A loop fill is half way while one transfer runs and another has finished.
C2_Witness ==
    /\ pc = "gen"
    /\ fillIdx > 0
    /\ fillIdx < TABLE_SIZE
    /\ gen_num >= 3
    /\ \E c \in Channels : chState[c] = "busy"

\* The buffers that exist: the third is created by the singleton! of line 279.
Created ==
    IF pc \in {"gen1", "gen2", "start1", "wait1", "start2", "wait2",
               "dbl_start", "dbl_read_next", "mk_next"}
    THEN {1, 2} ELSE Buffers

\* C3 as stated: at every point, startup included, main holds at most one
\* buffer and every other existing buffer is bound to the engine.
C3_AtMostOneHeldAlways ==
    /\ Cardinality(Held) <= 1
    /\ \A b \in Created : b \notin Held => b \in Bound

\* C3 amended: main never holds more than two buffers; at every is_done poll
\* and during every fill of the loop it holds exactly one (next_buf) and the
\* other two buffers are bound to the engine. (It holds two during startup
\* priming and between wait and read_next.)
C3_OneHeldInLoop ==
    /\ Cardinality(Held) <= 2
    /\ pc \in {"poll", "gen"} =>
          /\ Held = {next_buf}
          /\ Bound = Buffers \ {next_buf}

C3_Witness ==
    /\ pc = "gen"
    /\ fillIdx > 0
    /\ gen_num >= 3
    /\ Cardinality(Bound) = 2

\* C4 as stated: if no running transfer ever finished before the fill that
\* was due during it had completed, then no transfer ever completed in the
\* loop without a queued buffer bound behind it.
C4_FillInTimeNoGap == ~lateFill => ~gap

\* C4 amended: if no running transfer ever finished before the fill due
\* during it AND the hand-off that follows the fill (wait, read_next) had
\* completed, then no transfer completed in the loop without a queued buffer.
C4_ServiceInTimeNoGap == (~lateFill /\ ~lateHandOff) => ~gap

\* In the loop, with every deadline met so far, a transfer has just
\* completed and the engine runs the buffer that was queued behind it.
C4_Witness ==
    /\ pc = "poll"
    /\ gen_num >= 4
    /\ ~lateFill /\ ~lateHandOff /\ ~gap
    /\ chState[first] = "done"
    /\ chState[Other(first)] = "busy"

\* C5: at every poll of the loop the number of buffers generated in the
\* loop (gen_num less the two of startup) equals the number of completions
\* the loop has observed; in between the generation lags by at most one.
C5_OneBufferPerObservedCompletion ==
    /\ pc = "poll" => gen_num = 2 + doneSeen
    /\ pc \in LoopPcs => (gen_num - 2 <= doneSeen /\ doneSeen <= gen_num - 1)
    /\ pc \notin LoopPcs => doneSeen = 0

C5_Witness == pc = "poll" /\ doneSeen >= 3 /\ gen_num = 2 + doneSeen

\* C6: at every is_done poll the handle's active buffer, its queued buffer
\* and next_buf are three distinct buffers; wait gives back the buffer of the
\* completed transfer and that buffer becomes next_buf.
C6_ThreeSlotPartition ==
    [][/\ pc' = "poll" =>
             /\ chBuf'[first'] # 0
             /\ chState'[first'] \in {"busy", "done"}
             /\ chBuf'[Other(first')] # 0
             /\ chState'[Other(first')] \in {"armed", "busy", "done"}
             /\ next_buf' # 0
             /\ Cardinality({chBuf'[first'], chBuf'[Other(first')], next_buf'}) = 3
       /\ (pc = "wait" /\ pc' = "read_next") => tx_buf' = chBuf[first]
       /\ (pc = "read_next" /\ pc' = "poll") =>
             /\ next_buf' = tx_buf
             /\ chBuf'[first'] = chBuf[first]
             /\ chBuf'[Other(first')] = next_buf
      ]_vars

\* After several swaps buffer 1 is the free one again.
C6_Witness == pc = "poll" /\ gen_num >= 5 /\ next_buf = 1 /\ Bound = {2, 3}

\* C7: every wait call of the loop is made when the awaited transfer has
\* already completed (it returns without blocking), and the loop leaves the
\* poll only when is_done is true.
C7_LoopWaitNeverBlocks ==
    /\ pc = "wait" => chState[first] = "done"
    /\ pc = "gen" => chState[first] = "done"

\* The loop is about to call wait.
C7_Witness == pc = "wait" /\ gen_num >= 4 /\ chState[first] = "done"

\* At startup wait does block: it is called while the transfer still runs.
C7_StartupWaitBlocks == pc = "wait1" /\ chState[0] = "busy"

-----------------------------------------------------------------------------
(* Properties of the filter and of the noise generation *)

\* x[n-k] and y[n-k] of the call just made (0 before the first call).
XBack(k) == IF Len(xHist) > k THEN xHist[k + 1] ELSE 0
YBack(k) == IF Len(yHist) > k THEN yHist[k + 1] ELSE 0

\* The difference equation of the comment in compute.
DifferenceEquation(x0, x1, x2, y1, y2) ==
    FSub(FSub(FAdd(FAdd(FMul(B0, x0), FMul(B1, x1)), FMul(B2, x2)),
              FMul(A1, y1)),
         FMul(A2, y2))

\* C8: after every compute call the value returned equals
\* b0*x[n] + b1*x[n-1] + b2*x[n-2] - a1*y[n-1] - a2*y[n-2] over the inputs
\* and outputs of the calls so far; a fresh filter fed 1.0 returns b0.
C8_ComputeIsDifferenceEquation ==
    Len(yHist) > 0 =>
        YBack(0) = DifferenceEquation(XBack(0), XBack(1), XBack(2),
                                      YBack(1), YBack(2))

\* C9: the white sample of a random word has the word's low 16 bits as its
\* magnitude, negated exactly when bit 31 is set; it lies in
\* [-1.0, 1.0 - 2^-16]; bits 16..30 of the word do not change it.
C9_WhiteFromLow16AndBit31 ==
    (nFills + nSamples > 0) =>
        LET lo == rv[2]
            b31 == rv[1] \div 32768
        IN /\ white = (IF b31 = 1 THEN 0 - lo ELSE lo)
           /\ white >= -65536 /\ white <= 65535
           /\ b31 = 1 => white <= 0
           /\ b31 = 0 => white >= 0
           /\ \A mid \in {0, 1, 16384, 32767} :
                 GenWhiteNoise(<<b31 * 32768 + mid, lo>>) = white

\* A negative white sample of full magnitude has been drawn, from a word
\* with some of bits 16..30 set.
C9_Witness ==
    /\ nSamples > 0
    /\ rv[1] >= 32768
    /\ rv[1] % 32768 # 0
    /\ white = -65535

\* C10: after each sample the carried state prior_sample is the random-walk
\* value selected before the multiplication by VOLUME.
C10_StateIsPreVolume ==
    (nFills + nSamples > 0) => prior_sample = walk

\* Samples written so far by generate_brown_noise over all calls.
SamplesWritten == nFills * NoiseLen + nSamples

\* C11: the random-walk value selected for each sample before volume
\* scaling (after the reflection step) lies strictly inside (-0.25, 0.25),
\* for every sample of every fill from NoiseState 0.
C11_WalkInsideQuarter ==
    SamplesWritten > 0 => (walk > -16384 /\ walk < 16384)

\* A sample of a later fill whose walk value is not zero.
C11_Witness == nFills >= 1 /\ nSamples > 0 /\ walk # 0 /\ prior_sample # 0

\* C12: one random word is drawn and the state advanced per written sample,
\* and the first sample of every call after the first is computed from the
\* state the previous call returned (zero only for the very first sample).
C12_WalkContinuesAcrossFills ==
    /\ draws = SamplesWritten
    /\ (nFills = 0 /\ nSamples > 0) => firstPrior = 0
    /\ (nFills > 0 /\ nSamples > 0) => firstPrior = fillEndState
    /\ nSamples = 0 => prior_sample = fillEndState

\* The second call has started from a non-zero state left by the first.
C12_Witness ==
    /\ nFills = 1
    /\ nSamples = 1
    /\ firstPrior # 0
    /\ firstPrior = fillEndState

\* C13: every sample packed into a buffer has passed through
\* Butterworth::compute: the filter has been advanced once per sample
\* written, and the packed sample is the filter's latest output.
C13_EverySampleFiltered ==
    /\ Len(yHist) = SamplesWritten
    /\ SamplesWritten > 0 => prior_sample = YBack(0)

\* C19: no I16F16 operation of generate_brown_noise overflows, the scaled
\* sample fits an i16, and the packed word is its 16-bit two's complement
\* pattern with the high 16 bits zero.
C19_NoOverflowAndFitsI16 ==
    /\ ~overflowed
    /\ InI16(scaledInt)
    /\ sampleWord >= 0 /\ sampleWord <= 65535
    /\ sampleWord = (IF scaledInt >= 0 THEN scaledInt ELSE scaledInt + 65536)

\* A negative sample has been packed.
C19_Witness == SamplesWritten > 1 /\ scaledInt < -1 /\ sampleWord > 32768

\* C16: with candidate = leakage*prior + white*step_scale, the pre-volume
\* value of a sample is candidate when candidate is strictly inside
\* (-0.25, 0.25) and leakage*prior - white*step_scale otherwise; it is never
\* the boundary value the candidate crossed.
C16_ReflectNotClamp ==
    draws = 1 =>
        LET candidate == FAdd(FMul(LEAKAGE, firstPrior), FMul(white, SCALING))
            mirrored == FSub(FMul(LEAKAGE, firstPrior), FMul(white, SCALING))
        IN /\ (candidate > -16384 /\ candidate < 16384) => walk = candidate
           /\ (candidate >= 16384 \/ candidate <= -16384) =>
                  (walk = mirrored /\ walk # 16384 /\ walk # -16384)

\* A candidate at or past +0.25 has been mirrored.
C16_Witness ==
    /\ draws = 1
    /\ FAdd(FMul(LEAKAGE, firstPrior), FMul(white, SCALING)) >= 16384
    /\ walk < 16384
    /\ walk > 0

\* C18: a compute call writes the input into the slot under the input
\* cursor and the output into the slot under the output cursor, leaves the
\* other slots as they were, advances the cursors by one modulo 3 and
\* modulo 2, and the cursors stay in 0..2 and 0..1.
C18_ComputeFrame ==
    [][ /\ inputs'[input_index] = xHist'[1]
        /\ outputs'[output_index] = yHist'[1]
        /\ \A i \in 0..2 : i # input_index => inputs'[i] = inputs[i]
        /\ \A i \in 0..1 : i # output_index => outputs'[i] = outputs[i]
        /\ input_index' = (input_index + 1) % 3
        /\ output_index' = (output_index + 1) % 2
        /\ input_index' \in 0..2
        /\ output_index' \in 0..1
        /\ DOMAIN inputs' = 0..2
        /\ DOMAIN outputs' = 0..1
        /\ Len(xHist') = Len(xHist) + 1
        /\ Len(yHist') = Len(yHist) + 1 ]_vars

\* Both cursors have wrapped around and the rings hold non-zero history.
C18_Witness ==
    /\ Len(yHist) = 4
    /\ input_index = 1
    /\ output_index = 0
    /\ \A i \in 0..2 : inputs[i] # 0
    /\ \E i \in 0..1 : outputs[i] # 0

\* C17: the transfers completed so far carried the generated buffers in
\* generation order, each exactly once: the k-th completed transfer sent the
\* content of the k-th generate_brown_noise call.
C17_EachBufferSentOnceInOrder ==
    \A i \in 1..Len(sent) : sent[i] = i - 1

\* C20: when every started transfer eventually completes, the scheduler
\* never stops: each generate_brown_noise call is followed by the next one
\* (for every call below the bound MaxGen), and once call n has returned
\* the buffer it filled is eventually bound to the transfer engine with that
\* content.
C20_KeepsFillingAndHandingOver ==
    /\ \A n \in 0..(MaxGen - 1) : (gen_num = n) ~> (gen_num = n + 1)
    /\ \A n \in 0..(MaxGen - 1) :
           (gen_num = n + 1)
               ~> (\E c \in Channels : chBuf[c] # 0 /\ bufGen[chBuf[c]] = n)

\* The loop has filled a buffer several times over and the latest one has
\* been handed to the engine by read_next.
C20_Witness ==
    /\ pc = "poll"
    /\ gen_num >= 5
    /\ doneSeen >= 3
    /\ \E c \in Channels : chBuf[c] # 0 /\ bufGen[chBuf[c]] = gen_num - 1

\* The repeating frame of the program, startup pass left aside: every pass
\* from entry_point back to entry_point shifts exactly 32 bits and changes
\* LRCLK exactly twice, 16 bits are shifted between consecutive LRCLK
\* changes, and BCLK is low in the cycle that shifts a bit and high in the
\* cycle after it.
C14_SteadyFrame ==
    /\ framesDone >= 2 => (lastFrameBits = 32 /\ lastFrameWs = 2)
    /\ wsChanges >= 3 => lastHalfBits = 16
    /\ lastOp \in {"out", "stall"} => bck = 0
    /\ lastOp = "out" => Program[pioPc].op # "out"
    /\ lastOp \in {"jmp", "set"} => (bck = 1 /\ Program[pioPc].op = "out")

\* C14: the program repeats a fixed frame of exactly 32 shifted bits with
\* BCLK low then high once per bit and LRCLK changing twice per frame, 16
\* bits apart, and each frame carries one FIFO word: when control is at the
\* frame boundary (entry_point) no bit of the next word has been shifted.
C14_FrameIsOneAlignedWord ==
    /\ C14_SteadyFrame
    /\ (pioPc = entry_point /\ lastOp = "out") => shifted = 0

\* C15: every LRCLK period (rise to rise, the startup period left aside)
\* contains exactly 64 BCLK periods.
C15_BckIs64TimesWs ==
    wsRises >= 3 => lastPeriodBck = 64

\* What the program produces: 32 BCLK periods per LRCLK period.
C15_BckIs32TimesWs ==
    wsRises >= 3 => lastPeriodBck = 32

=============================================================================
